---- MODULE Spec2Model ----
(***************************************************************************)
(* A state-machine model of the StreamFlow player: the Shell (src/App.tsx) *)
(* and the HlsPlayer component (src/unnamed/part_000).                     *)
(*                                                                         *)
(* The two external collaborators are modelled by their documented        *)
(* behaviour, as far as the component observes it:                         *)
(*  - the media element follows the HTML media element algorithms         *)
(*    (load, play, pause, pending play promises, the event task queue);    *)
(*  - an hls.js instance emits no event after destroy(), and destroy()     *)
(*    detaches the media (removeAttribute('src') + load()).                *)
(* One action is one browser task: the handler, the React re-render it     *)
(* causes with its effects, and the microtasks (promise reactions) that    *)
(* run before the next task.                                               *)
(***************************************************************************)
EXTENDS Integers, Sequences, FiniteSets, TLC

\* ------------------------------------------------------------------ bounds
MaxLen == 2
MaxLevels == 2
MaxSessions == 3
MaxVolume == 2
MaxTime == 1
MaxRequests == 2

\* max={duration || 100} of the progress scrubber.
DefaultSliderMax == 100

\* ------------------------------------------------------------------- state
VARIABLES
    phase,                \* "init" (rendered, effects not yet run) | "mounted" | "unmounted"
    hlsSupported,         \* Hls.isSupported() in this browser
    nativeHls,            \* video.canPlayType('application/vnd.apple.mpegurl') is non-empty
    streamUrl,            \* App: the address handed to the Player
    urlInput,             \* App: the text of the address field
    isPlaying,
    isMuted,
    volume,
    isBuffering,
    error,
    isLive,
    qualities,
    currentQualityIndex,
    showSettings,
    hlsRef,               \* 0 is null, else an index into hls
    hls,                  \* every Hls instance constructed so far
    video,                \* the media element
    listeners,            \* listeners the setup effect added to the element (never removed)
    session,              \* how many times the setup effect has run
    isFullscreen,
    duration,             \* the displayed duration: "0" until a time-update, then the element's
    currentTime,
    fs,                   \* the document: its fullscreen element, requests and events in flight
    last                  \* the last handler that ran, with what it was given

shellVars == <<streamUrl, urlInput>>
uiVars == <<isPlaying, isMuted, volume, isBuffering, error, isLive, qualities,
            currentQualityIndex, showSettings>>
resVars == <<hlsRef, hls, video, listeners, session>>
envVars == <<hlsSupported, nativeHls>>
auxVars == <<isFullscreen, duration, currentTime, fs>>
vars == <<phase, envVars, shellVars, uiVars, resVars, auxVars, last>>

\* -------------------------------------------------------------------- text
\* A text is a sequence of fragments; " " is the whitespace String.trim removes.
WhiteSpace == {" "}
Chars == {" ", ".m3u8", "x"}

RECURSIVE TextsUpTo(_)
TextsUpTo(n) ==
    IF n = 0 THEN {<<>>}
    ELSE LET shorter == TextsUpTo(n - 1)
         IN  shorter \cup {Append(t, c) : t \in {s \in shorter : Len(s) = n - 1}, c \in Chars}

Texts == TextsUpTo(MaxLen)

RECURSIVE TrimStart(_)
TrimStart(s) ==
    IF s # <<>> /\ Head(s) \in WhiteSpace THEN TrimStart(Tail(s)) ELSE s

RECURSIVE TrimEnd(_)
TrimEnd(s) ==
    IF s # <<>> /\ s[Len(s)] \in WhiteSpace THEN TrimEnd(SubSeq(s, 1, Len(s) - 1)) ELSE s

Trim(s) ==
    TrimEnd(TrimStart(s))

ToLowerCase(c) ==
    IF c = ".M3U8" THEN ".m3u8" ELSE c

Includes(s, frag) ==
    \E i \in 1..Len(s) : ToLowerCase(s[i]) = frag

DEFAULT_STREAM == <<"x", ".m3u8">>

\* ------------------------------------------------------- the media element
NoError == "null"
StreamError == "stream connection error"
FileError == "cannot play file"

\* gesture: the user has started playback on this element, after which the
\* browser's autoplay policy no longer rejects play().
NewVideo ==
    [paused |-> TRUE, muted |-> FALSE, volume |-> MaxVolume, error |-> FALSE,
     media |-> "empty", attached |-> 0, pending |-> {}, tasks |-> <<>>,
     gesture |-> FALSE, duration |-> "NaN", currentTime |-> 0]

\* The catch handlers of the play promises a queued task will reject.
TaskRejects(tasks) ==
    UNION {tasks[i].reject : i \in 1..Len(tasks)}

\* The media element load algorithm (setting src, load(), detaching a MediaSource):
\* queued tasks are dropped (those rejecting promises reject them now); unless the
\* element was empty it is paused, without a 'pause' event, and its pending play
\* promises are rejected.
VLoad(v, hasSource, owner) ==
    LET wasEmpty == v.media = "empty"
    IN  [v |-> [v EXCEPT !.paused = IF wasEmpty THEN v.paused ELSE TRUE,
                         !.pending = IF wasEmpty \/ v.paused THEN v.pending ELSE {},
                         !.tasks = <<>>,
                         !.error = FALSE,
                         !.media = IF hasSource THEN "loading" ELSE "empty",
                         !.duration = "NaN",
                         !.currentTime = 0,
                         !.attached = owner],
         rej |-> TaskRejects(v.tasks)
                 \cup (IF wasEmpty \/ v.paused THEN {} ELSE v.pending)]

\* video.play() with the catch handler `kind` ("none": no handler attached).
\* Not allowed, or a source that failed to load: the promise is rejected at once.
VPlay(v, allowed, kind) ==
    IF ~allowed \/ (v.error /\ v.media = "failed")
    THEN [v |-> v, rej |-> {kind} \ {"none"}]
    ELSE [v |-> [v EXCEPT !.paused = FALSE,
                          !.pending = v.pending \cup ({kind} \ {"none"}),
                          !.tasks = IF v.paused
                                    THEN Append(v.tasks, [type |-> "play", reject |-> {}])
                                    ELSE v.tasks],
          rej |-> {}]

\* video.pause(): the queued task fires 'pause' and rejects the promises taken.
VPause(v) ==
    IF v.paused THEN v
    ELSE [v EXCEPT !.paused = TRUE,
                   !.pending = {},
                   !.tasks = Append(v.tasks, [type |-> "pause", reject |-> v.pending])]

\* ---------------------------------------------------------- the Hls client
NewHls ==
    [destroyed |-> FALSE, parsed |-> FALSE, levels |-> <<>>, currentLevel |-> -1,
     cmd |-> "attachMedia"]

DestroyNothing(h, v, i) ==
    [hls |-> h, video |-> v, rej |-> {}]

\* hls.destroy() on instance i of h (0: hlsRef.current is null, nothing is called):
\* the instance drops its levels and listeners and detaches the media.
Destroy(h, v, i) ==
    IF i = 0 \/ h[i].destroyed
    THEN [hls |-> h, video |-> v, rej |-> {}]
    ELSE LET l == IF v.attached = i THEN VLoad(v, FALSE, 0) ELSE [v |-> v, rej |-> {}]
         IN  [hls |-> [h EXCEPT ![i].destroyed = TRUE, ![i].levels = <<>>,
                                ![i].cmd = "destroy"],
              video |-> l.v, rej |-> l.rej]

Live(h) ==
    {i \in 1..Len(h) : ~h[i].destroyed}

\* --------------------------------------------------------- the setup effect
isHlsSource(src) ==
    Includes(src, ".m3u8") \/ Includes(src, "application/vnd.apple.mpegurl")

StrategyNativeFirst(src) ==
    IF isHlsSource(src) /\ nativeHls THEN "native"
    ELSE IF isHlsSource(src) /\ hlsSupported THEN "hlsjs"
    ELSE "file"

\* Which branch of loadVideo runs for src.
Strategy(src) ==
    IF isHlsSource(src) /\ hlsSupported THEN "hlsjs"
    ELSE IF isHlsSource(src) /\ nativeHls THEN "native"
    ELSE "file"

\* The play-promise catch handlers that ran, applied to the displayed state:
\* "hls" is () => { setIsPlaying(false); setIsMuted(true) }, "native" is
\* () => setIsMuted(true).
CatchPlaying(rej, playing) ==
    IF "hls" \in rej THEN FALSE ELSE playing

CatchMuted(rej, muted) ==
    IF rej # {} THEN TRUE ELSE muted

KeepQualityIndex ==
    currentQualityIndex

\* setCurrentQualityIndex(-1) of the setup effect.
ResetQualityIndex ==
    -1

\* setError(null) of the setup effect.
ResetError ==
    NoError

\* The setup effect for src: the previous run's cleanup when there was one, the
\* resets, the release of the previous instance, loadVideo.
SetupEffect(src, cleanup) ==
    LET c == IF cleanup THEN Destroy(hls, video, hlsRef)
             ELSE [hls |-> hls, video |-> video, rej |-> {}]
        d == Destroy(c.hls, c.video, hlsRef)
        s == Strategy(src)
        id == Len(d.hls) + 1
        l1 == VLoad(d.video, TRUE, IF s = "hlsjs" THEN id ELSE 0)
        l2 == IF s = "file" THEN VLoad(l1.v, TRUE, 0) ELSE [v |-> l1.v, rej |-> {}]
        rej == c.rej \cup d.rej \cup l1.rej \cup l2.rej
    IN  /\ isBuffering' = TRUE
        /\ error' = ResetError
        /\ qualities' = <<>>
        /\ currentQualityIndex' = ResetQualityIndex
        /\ isLive' = FALSE
        /\ hls' = IF s = "hlsjs" THEN Append(d.hls, NewHls) ELSE d.hls
        /\ hlsRef' = IF s = "hlsjs" THEN id ELSE 0
        /\ video' = l2.v
        /\ listeners' =
             IF s = "native"
             THEN [listeners EXCEPT !.loadedmetadata = @ + 1]
             ELSE IF s = "file"
             THEN [listeners EXCEPT !.loadeddata = @ + 1, !.error = @ + 1]
             ELSE listeners
        /\ session' = session + 1
        /\ isPlaying' = CatchPlaying(rej, isPlaying)
        /\ isMuted' = CatchMuted(rej, isMuted)
        /\ last' = [op |-> IF cleanup THEN "submit" ELSE "mount", n |-> 1, plays |-> 0,
                    rej |-> rej, was |-> FALSE]
        /\ UNCHANGED <<volume, showSettings>>

\* ------------------------------------------------------------------- Shell
NoOp(name) ==
    [op |-> name, n |-> 0, plays |-> 0, rej |-> {}, was |-> FALSE]

Init ==
    /\ phase = "init"
    /\ hlsSupported \in BOOLEAN
    /\ nativeHls \in BOOLEAN
    /\ streamUrl = DEFAULT_STREAM
    /\ urlInput = DEFAULT_STREAM
    /\ isPlaying = FALSE
    /\ isMuted = FALSE
    /\ volume = MaxVolume
    /\ isBuffering = TRUE
    /\ error = NoError
    /\ isLive = FALSE
    /\ qualities = <<>>
    /\ currentQualityIndex = -1
    /\ showSettings = FALSE
    /\ hlsRef = 0
    /\ hls = <<>>
    /\ video = NewVideo
    /\ listeners = [loadedmetadata |-> 0, loadeddata |-> 0, error |-> 0]
    /\ session = 0
    /\ isFullscreen = FALSE
    /\ duration = "0"
    /\ currentTime = 0
    /\ fs = [element |-> FALSE, requests |-> <<>>, events |-> 0]
    /\ last = NoOp("render")

\* The first run of the effects, after the first render.
Mount ==
    /\ phase = "init"
    /\ phase' = "mounted"
    /\ SetupEffect(streamUrl, FALSE)
    /\ UNCHANGED <<auxVars, envVars, shellVars>>

\* onChange of the address field.
Edit(t) ==
    /\ phase = "mounted"
    /\ urlInput' = t
    /\ last' = NoOp("edit")
    /\ UNCHANGED <<auxVars, phase, envVars, streamUrl, uiVars, resVars>>

handleUrlSubmitNoTrim ==
    IF urlInput # <<>> THEN urlInput ELSE streamUrl

\* The value streamUrl has after handleUrlSubmit.
handleUrlSubmit ==
    IF Trim(urlInput) # <<>> THEN Trim(urlInput) ELSE streamUrl

SrcAlwaysChanged(old, new) ==
    TRUE

\* The dependency list [src] of the setup effect: it re-runs when src is not
\* the string of the previous render.
SrcChanged(old, new) ==
    new # old

\* Submitting the form; the Player's setup effect re-runs when src changed.
Submit ==
    /\ phase = "mounted"
    /\ streamUrl' = handleUrlSubmit
    /\ IF SrcChanged(streamUrl, streamUrl')
       THEN /\ session < MaxSessions
            /\ SetupEffect(streamUrl', TRUE)
       ELSE /\ last' = NoOp("submit")
            /\ UNCHANGED <<uiVars, resVars>>
    /\ UNCHANGED <<auxVars, phase, envVars, urlInput>>

\* ------------------------------------------------------- the quality list
Renditions ==
    {[height |-> 1080, bitrate |-> 5000000, live |-> FALSE],
     [height |-> 720, bitrate |-> 2500000, live |-> FALSE],
     [height |-> 0, bitrate |-> 1200000, live |-> TRUE]}

RECURSIVE SeqsUpTo(_, _)
SeqsUpTo(S, n) ==
    IF n = 0 THEN {<<>>}
    ELSE LET shorter == SeqsUpTo(S, n - 1)
         IN  shorter \cup {Append(t, c) : t \in {s \in shorter : Len(s) = n - 1}, c \in S}

\* The rendition lists a manifest-parsed event may carry (hls.js reports a
\* manifest without levels as a fatal error instead).
Manifests == SeqsUpTo(Renditions, MaxLevels) \ {<<>>}
OneManifest == {<<[height |-> 720, bitrate |-> 2500000, live |-> FALSE]>>}
LiveManifests == OneManifest \cup {<<[height |-> 0, bitrate |-> 1200000, live |-> TRUE]>>}

\* Manifests whose heights lie on and next to the tier thresholds.
BoundaryHeights == {0, 719, 720, 1079, 1080, 1439, 1440, 2159, 2160, 4320}
LabelRenditions == {[height |-> h, bitrate |-> 1000000, live |-> FALSE] : h \in BoundaryHeights}
LabelManifests == SeqsUpTo(LabelRenditions, MaxLevels) \ {<<>>}

getResolutionLabelAbove(height) ==
    IF height > 2160 THEN "4K"
    ELSE IF height > 1440 THEN "2K"
    ELSE IF height > 1080 THEN "FHD"
    ELSE IF height > 720 THEN "HD"
    ELSE "SD"

getResolutionLabel(height) ==
    IF height >= 2160 THEN "4K"
    ELSE IF height >= 1440 THEN "2K"
    ELSE IF height >= 1080 THEN "FHD"
    ELSE IF height >= 720 THEN "HD"
    ELSE "SD"

\* data.levels.map(...): index is the 0-based position in the manifest.
MapLevels(levels) ==
    [i \in 1..Len(levels) |->
        [height |-> levels[i].height,
         bitrate |-> levels[i].bitrate,
         index |-> i - 1,
         name |-> IF levels[i].height # 0 THEN <<levels[i].height, "p">> ELSE <<"L", i - 1>>,
         label |-> getResolutionLabel(levels[i].height)]]

\* Insert q into the list ls, sorted by descending height, after its equals.
RECURSIVE InsertByHeight(_, _)
InsertByHeight(q, ls) ==
    IF ls = <<>> THEN <<q>>
    ELSE IF q.height > Head(ls).height THEN <<q>> \o ls
    ELSE <<Head(ls)>> \o InsertByHeight(q, Tail(ls))

\* levels.sort((a, b) => b.height - a.height): a stable sort.
RECURSIVE SortByHeight(_)
SortByHeight(ls) ==
    IF ls = <<>> THEN <<>>
    ELSE InsertByHeight(ls[Len(ls)], SortByHeight(SubSeq(ls, 1, Len(ls) - 1)))

SortThenIndex(levels) ==
    MapLevels(SortByHeight(levels))

UnsortedLevels(levels) ==
    MapLevels(levels)

\* The list the MANIFEST_PARSED handler hands to setQualities.
ParseLevels(levels) ==
    SortByHeight(MapLevels(levels))

\* ------------------------------------------------------- Hls event handlers
\* hls.on(Hls.Events.MANIFEST_PARSED, ...) of instance i; hls.js emits it once
\* per loadSource. allowed: whether the autoplay policy admits this play().
ManifestParsed(i, levels, allowed) ==
    /\ phase = "mounted"
    /\ i \in Live(hls)
    /\ ~hls[i].parsed
    /\ allowed \/ ~video.gesture
    /\ LET p == VPlay(video, allowed, "hls")
       IN  /\ isBuffering' = FALSE
           /\ isLive' = (\E k \in 1..Len(levels) : levels[k].live)
           /\ qualities' = ParseLevels(levels)
           /\ video' = p.v
           /\ isPlaying' = CatchPlaying(p.rej, isPlaying)
           /\ isMuted' = CatchMuted(p.rej, isMuted)
           /\ last' = [op |-> "manifestParsed", n |-> i, plays |-> 1, rej |-> p.rej,
                       was |-> FALSE]
    /\ hls' = [hls EXCEPT ![i].parsed = TRUE, ![i].levels = levels]
    /\ UNCHANGED <<auxVars, phase, envVars, shellVars, volume, error, currentQualityIndex,
                   showSettings, hlsRef, listeners, session>>

ErrorTypes == {"networkError", "mediaError", "otherError"}

onFatalErrorKeepClient(h, v, i) ==
    [hls |-> h, video |-> v, rej |-> {}]

\* The default branch of the ERROR handler's switch: hls.destroy().
onFatalError(h, v, i) ==
    Destroy(h, v, i)

\* hls.on(Hls.Events.ERROR, ...) of instance i.
HlsError(i, fatal, type) ==
    /\ phase = "mounted"
    /\ i \in Live(hls)
    /\ IF ~fatal
       THEN /\ last' = [NoOp("nonFatal") EXCEPT !.n = i]
            /\ UNCHANGED <<hls, video, error, isPlaying, isMuted>>
       ELSE IF type = "networkError"
       THEN /\ hls' = [hls EXCEPT ![i].cmd = "startLoad"]
            /\ last' = [NoOp(type) EXCEPT !.n = i]
            /\ UNCHANGED <<video, error, isPlaying, isMuted>>
       ELSE IF type = "mediaError"
       THEN /\ hls' = [hls EXCEPT ![i].cmd = "recoverMediaError"]
            /\ last' = [NoOp(type) EXCEPT !.n = i]
            /\ UNCHANGED <<video, error, isPlaying, isMuted>>
       ELSE LET d == onFatalError(hls, video, i)
            IN  /\ hls' = d.hls
                /\ video' = d.video
                /\ error' = StreamError
                /\ isPlaying' = CatchPlaying(d.rej, isPlaying)
                /\ isMuted' = CatchMuted(d.rej, isMuted)
                /\ last' = [NoOp(type) EXCEPT !.n = i, !.rej = d.rej]
    /\ UNCHANGED <<auxVars, phase, envVars, shellVars, volume, isBuffering, isLive, qualities,
                   currentQualityIndex, showSettings, hlsRef, listeners, session>>

\* ------------------------------------------------- media element listeners
\* n listeners `() => { setIsBuffering(false); video.play().catch(() => setIsMuted(true)) }`
\* run for the event `name`, after which the element's media state is `reached`.
AutoplayListeners(name, n, reached, allowed) ==
    LET p == IF n > 0 THEN VPlay(video, allowed, "native") ELSE [v |-> video, rej |-> {}]
    IN  /\ video' = [p.v EXCEPT !.media = reached]
        /\ isBuffering' = IF n > 0 THEN FALSE ELSE isBuffering
        /\ isMuted' = CatchMuted(p.rej, isMuted)
        /\ last' = [op |-> name, n |-> n, plays |-> n, rej |-> p.rej, was |-> FALSE]

\* 'loadedmetadata' fired at the element.
LoadedMetadata(allowed) ==
    /\ phase = "mounted"
    /\ video.media = "loading"
    /\ allowed \/ ~video.gesture
    /\ AutoplayListeners("loadedmetadata", listeners.loadedmetadata, "metadata", allowed)
    /\ UNCHANGED <<auxVars, phase, envVars, shellVars, isPlaying, volume, error, isLive, qualities,
                   currentQualityIndex, showSettings, hlsRef, hls, listeners, session>>

\* 'loadeddata' fired at the element.
LoadedData(allowed) ==
    /\ phase = "mounted"
    /\ video.media = "metadata"
    /\ allowed \/ ~video.gesture
    /\ AutoplayListeners("loadeddata", listeners.loadeddata, "data", allowed)
    /\ UNCHANGED <<auxVars, phase, envVars, shellVars, isPlaying, volume, error, isLive, qualities,
                   currentQualityIndex, showSettings, hlsRef, hls, listeners, session>>

\* The element fails: video.error is set and 'error' is fired at the element. A
\* source set as src can fail before any data; a MediaSource fails by a decode error.
\* (No play promise with a catch handler is pending before 'loadedmetadata' on the
\* src paths, so the rejection of pending promises by a failed load runs no handler.)
VideoError ==
    /\ phase = "mounted"
    /\ \/ video.media \in {"metadata", "data"}
       \/ video.media = "loading" /\ video.attached = 0
    /\ ~video.error
    /\ video' = [video EXCEPT !.error = TRUE,
                              !.media = IF @ = "loading" THEN "failed" ELSE @]
    /\ error' = IF listeners.error > 0 THEN FileError ELSE error
    /\ last' = [NoOp("videoError") EXCEPT !.n = listeners.error]
    /\ UNCHANGED <<auxVars, phase, envVars, shellVars, isPlaying, isMuted, volume, isBuffering, isLive,
                   qualities, currentQualityIndex, showSettings, hlsRef, hls, listeners,
                   session>>

\* The next queued task of the element runs: 'play' (onPlay), or 'pause' (onPause)
\* followed by the rejection of the play promises pause() took.
DeliverTask ==
    /\ phase = "mounted"
    /\ video.tasks # <<>>
    /\ LET t == Head(video.tasks)
       IN  /\ isPlaying' = IF t.type = "play" THEN TRUE ELSE FALSE
           /\ isMuted' = CatchMuted(t.reject, isMuted)
           /\ last' = [NoOp(t.type) EXCEPT !.rej = t.reject]
    /\ video' = [video EXCEPT !.tasks = Tail(@)]
    /\ UNCHANGED <<auxVars, phase, envVars, shellVars, volume, isBuffering, error, isLive, qualities,
                   currentQualityIndex, showSettings, hlsRef, hls, listeners, session>>

\* Playback starts: 'playing' (onPlaying) and the pending play promises resolve.
Playing ==
    /\ phase = "mounted"
    /\ ~video.paused
    /\ video.media = "data"
    /\ ~video.error
    /\ video' = [video EXCEPT !.pending = {}]
    /\ isBuffering' = FALSE
    /\ last' = NoOp("playing")
    /\ UNCHANGED <<auxVars, phase, envVars, shellVars, isPlaying, isMuted, volume, error, isLive,
                   qualities, currentQualityIndex, showSettings, hlsRef, hls, listeners,
                   session>>

\* The element's duration becomes known or changes: a finite length, or Infinity
\* for an unbounded source. A MediaSource has no duration before hls.js has the
\* manifest.
DurationChange(d) ==
    /\ phase = "mounted"
    /\ video.media \in {"metadata", "data"}
    /\ video.attached # 0 => hls[video.attached].parsed
    /\ d # video.duration
    /\ video' = [video EXCEPT !.duration = d]
    /\ last' = NoOp("durationchange")
    /\ UNCHANGED <<auxVars, phase, envVars, shellVars, uiVars, hlsRef, hls, listeners,
                   session>>

LiveAfterTimeUpdateOnlyUnbounded(d, live) ==
    d = "Infinity"

\* if (video.duration === Infinity) setIsLive(true)
LiveAfterTimeUpdate(d, live) ==
    live \/ d = "Infinity"

\* 'timeupdate' fired at the element, whose playback position is t: onTimeUpdate.
TimeUpdate(t) ==
    /\ phase = "mounted"
    /\ video.media \in {"metadata", "data"}
    /\ video' = [video EXCEPT !.currentTime = t]
    /\ currentTime' = t
    /\ duration' = video.duration
    /\ isLive' = LiveAfterTimeUpdate(video.duration, isLive)
    /\ last' = [NoOp("timeUpdate") EXCEPT !.n = t]
    /\ UNCHANGED <<phase, envVars, shellVars, isPlaying, isMuted, volume, isBuffering, error,
                   qualities, currentQualityIndex, showSettings, hlsRef, hls, listeners,
                   session, isFullscreen, fs>>

\* {!isLive && (<progress scrubber>)}
ScrubberShown ==
    ~isLive

\* {isLive ? (<live indicator>) : (<time display>)}
LiveIndicatorShown ==
    isLive

\* The length of a bounded medium, in the unit of the playback position.
FiniteDuration ==
    MaxTime

\* max={duration || 100}: the displayed duration, or 100 while it is 0 or NaN.
SliderMax ==
    IF duration = "finite" THEN FiniteDuration ELSE DefaultSliderMax

\* Setting video.currentTime: the seek algorithm moves a position past the end
\* of the media to the end; without a known duration the value is kept.
VSeek(v, val) ==
    [v EXCEPT !.currentTime = IF v.duration = "finite" /\ val > FiniteDuration
                              THEN FiniteDuration ELSE val]

\* onChange of the progress scrubber, rendered while the stream is not marked
\* live; val is the slider position, between min and max.
seek(val) ==
    /\ phase = "mounted"
    /\ ScrubberShown
    /\ val \in 0..SliderMax
    /\ video' = VSeek(video, val)
    /\ currentTime' = val
    /\ last' = [NoOp("seek") EXCEPT !.n = val]
    /\ UNCHANGED <<phase, envVars, shellVars, uiVars, hlsRef, hls, listeners, session,
                   isFullscreen, duration, fs>>

\* ------------------------------------------------------ transport controls
\* A click on the play button or the video: a user gesture, so play() is allowed.
togglePlay ==
    /\ phase = "mounted"
    /\ video' = IF isPlaying THEN VPause(video)
                ELSE [VPlay(video, TRUE, "none").v EXCEPT !.gesture = TRUE]
    /\ last' = [NoOp("togglePlay") EXCEPT !.n = IF isPlaying THEN 0 ELSE 1,
                                          !.plays = IF isPlaying THEN 0 ELSE 1,
                                          !.was = video.paused]
    /\ UNCHANGED <<auxVars, phase, envVars, shellVars, uiVars, hlsRef, hls, listeners, session>>

toggleMute ==
    /\ phase = "mounted"
    /\ video' = [video EXCEPT !.muted = ~isMuted]
    /\ isMuted' = ~isMuted
    /\ last' = [NoOp("toggleMute") EXCEPT !.was = isMuted]
    /\ UNCHANGED <<auxVars, phase, envVars, shellVars, isPlaying, volume, isBuffering, error, isLive,
                   qualities, currentQualityIndex, showSettings, hlsRef, hls, listeners,
                   session>>

MutedForNeverUnmutes(val) ==
    isMuted \/ val = 0

\* The muted value handleVolumeChange derives from the slider value: val === 0.
MutedFor(val) ==
    val = 0

\* onChange of the volume slider; val is the slider position, 0..MaxVolume.
handleVolumeChange(val) ==
    /\ phase = "mounted"
    /\ volume' = val
    /\ video' = [video EXCEPT !.volume = val, !.muted = MutedFor(val)]
    /\ isMuted' = MutedFor(val)
    /\ last' = [NoOp("handleVolumeChange") EXCEPT !.n = val, !.was = isMuted]
    /\ UNCHANGED <<auxVars, phase, envVars, shellVars, isPlaying, isBuffering, error, isLive,
                   qualities, currentQualityIndex, showSettings, hlsRef, hls, listeners,
                   session>>

\* The settings button, rendered only while the quality list is non-empty.
ToggleSettings ==
    /\ phase = "mounted"
    /\ qualities # <<>>
    /\ showSettings' = ~showSettings
    /\ last' = NoOp("toggleSettings")
    /\ UNCHANGED <<auxVars, phase, envVars, shellVars, isPlaying, isMuted, volume, isBuffering, error,
                   isLive, qualities, currentQualityIndex, resVars>>

\* A button of the open settings menu: Auto (-1) or one entry of the list.
changeQuality(index) ==
    /\ phase = "mounted"
    /\ qualities # <<>>
    /\ showSettings
    /\ index \in {-1} \cup {qualities[k].index : k \in 1..Len(qualities)}
    /\ currentQualityIndex' = index
    /\ hls' = IF hlsRef # 0 THEN [hls EXCEPT ![hlsRef].currentLevel = index] ELSE hls
    /\ showSettings' = FALSE
    /\ last' = [NoOp("changeQuality") EXCEPT !.n = index]
    /\ UNCHANGED <<auxVars, phase, envVars, shellVars, isPlaying, isMuted, volume, isBuffering, error,
                   isLive, qualities, hlsRef, video, listeners, session>>

\* The Player is removed: the setup effect's cleanup runs.
Unmount ==
    /\ phase = "mounted"
    /\ phase' = "unmounted"
    /\ LET d == Destroy(hls, video, hlsRef)
       IN  /\ hls' = d.hls
           /\ video' = d.video
    /\ last' = NoOp("unmount")
    /\ UNCHANGED <<auxVars, envVars, shellVars, uiVars, hlsRef, listeners, session>>

\* -------------------------------------------------------------- fullscreen
\* The document processes fullscreen requests in the order they were made. A
\* completed request sets or clears the fullscreen element, queues the
\* fullscreenchange notification and resolves the request's promise in one task.
handleFsChangeIgnored(element) ==
    isFullscreen

\* handleFsChange: setIsFullscreen(!!document.fullscreenElement).
handleFsChange(element) ==
    element

\* A click on the fullscreen button: requestFullscreen() or exitFullscreen(),
\* by what document.fullscreenElement is now.
toggleFullscreen ==
    /\ phase = "mounted"
    /\ Len(fs.requests) < MaxRequests
    /\ fs' = [fs EXCEPT !.requests = Append(@, IF ~fs.element THEN "request" ELSE "exit")]
    /\ last' = [NoOp("toggleFullscreen") EXCEPT !.was = fs.element]
    /\ UNCHANGED <<phase, envVars, shellVars, uiVars, resVars, duration, currentTime, isFullscreen>>

\* The document completes the oldest request. A granted requestFullscreen() makes
\* the container the fullscreen element and runs .then(() => setIsFullscreen(true));
\* a denied one rejects. exitFullscreen() leaves fullscreen (resolving also when
\* the document has left it meanwhile) and runs .then(() => setIsFullscreen(false)).
CompleteFullscreen(granted) ==
    /\ phase = "mounted"
    /\ fs.requests # <<>>
    /\ fs.events < MaxRequests
    /\ LET r == Head(fs.requests)
           to == (r = "request")
       IN  /\ r = "exit" => granted
           /\ fs' = IF granted
                    THEN [element |-> to, requests |-> Tail(fs.requests),
                          events |-> fs.events + (IF fs.element # to THEN 1 ELSE 0)]
                    ELSE [fs EXCEPT !.requests = Tail(@)]
           /\ isFullscreen' = IF granted THEN to ELSE isFullscreen
           /\ last' = [NoOp("fullscreenDone") EXCEPT !.n = IF granted THEN 1 ELSE 0,
                                                     !.was = isFullscreen]
    /\ UNCHANGED <<phase, envVars, shellVars, uiVars, resVars, duration, currentTime>>

\* The user or the browser leaves fullscreen (Escape).
ExternalExit ==
    /\ phase = "mounted"
    /\ fs.element
    /\ fs.events < MaxRequests
    /\ fs' = [fs EXCEPT !.element = FALSE, !.events = @ + 1]
    /\ last' = NoOp("escape")
    /\ UNCHANGED <<phase, envVars, shellVars, uiVars, resVars, duration, currentTime, isFullscreen>>

\* A queued 'fullscreenchange' is fired at the document.
FullscreenChange ==
    /\ phase = "mounted"
    /\ fs.events > 0
    /\ fs' = [fs EXCEPT !.events = @ - 1]
    /\ isFullscreen' = handleFsChange(fs.element)
    /\ last' = [NoOp("fullscreenChange") EXCEPT !.was = isFullscreen]
    /\ UNCHANGED <<phase, envVars, shellVars, uiVars, resVars, duration, currentTime>>

\* ----------------------------------------------------------- specifications
\* The addresses typed in the Player specifications: a progressive file, a manifest.
TypedAddresses == {<<"x">>, <<".m3u8">>}

\* The Shell: every text of the address field.
NextShell ==
    \/ Mount
    \/ \E t \in Texts : Edit(t)
    \/ Submit

SpecShell == Init /\ [][NextShell]_vars

\* Sessions: address changes, client and element events, removal.
NextSession ==
    \/ Mount
    \/ \E t \in TypedAddresses : Edit(t)
    \/ Submit
    \/ Unmount
    \/ \E i \in 1..Len(hls), levels \in OneManifest, allowed \in BOOLEAN :
          ManifestParsed(i, levels, allowed)
    \/ \E i \in 1..Len(hls), fatal \in BOOLEAN, type \in ErrorTypes : HlsError(i, fatal, type)
    \/ \E allowed \in BOOLEAN : LoadedMetadata(allowed)
    \/ \E allowed \in BOOLEAN : LoadedData(allowed)
    \/ VideoError
    \/ DeliverTask
    \/ Playing

SpecSession == Init /\ [][NextSession]_vars

\* The quality list: manifests, the settings menu, address changes.
NextQuality ==
    \/ Mount
    \/ \E t \in TypedAddresses : Edit(t)
    \/ Submit
    \/ \E i \in 1..Len(hls), levels \in Manifests, allowed \in BOOLEAN :
          ManifestParsed(i, levels, allowed)
    \/ \E i \in 1..Len(hls) : HlsError(i, TRUE, "otherError")
    \/ ToggleSettings
    \/ \E index \in -1..(MaxLevels - 1) : changeQuality(index)

SpecQuality == Init /\ [][NextQuality]_vars

\* The transport controls within one session.
NextTransport ==
    \/ Mount
    \/ \E i \in 1..Len(hls), levels \in OneManifest, allowed \in BOOLEAN :
          ManifestParsed(i, levels, allowed)
    \/ \E allowed \in BOOLEAN : LoadedMetadata(allowed)
    \/ \E allowed \in BOOLEAN : LoadedData(allowed)
    \/ DeliverTask
    \/ Playing
    \/ togglePlay
    \/ toggleMute
    \/ \E val \in 0..MaxVolume : handleVolumeChange(val)

SpecTransport == Init /\ [][NextTransport]_vars

\* Tier labels: manifests with heights around every threshold.
NextLabel ==
    \/ Mount
    \/ \E i \in 1..Len(hls), levels \in LabelManifests : ManifestParsed(i, levels, TRUE)

SpecLabel == Init /\ [][NextLabel]_vars

\* Time and duration: time-updates of bounded and unbounded sources.
NextLive ==
    \/ Mount
    \/ \E t \in TypedAddresses : Edit(t)
    \/ Submit
    \/ \E i \in 1..Len(hls), levels \in LiveManifests : ManifestParsed(i, levels, TRUE)
    \/ LoadedMetadata(TRUE)
    \/ LoadedData(TRUE)
    \/ \E d \in {"finite", "Infinity"} : DurationChange(d)
    \/ \E t \in 0..MaxTime : TimeUpdate(t)

SpecLive == Init /\ [][NextLive]_vars

\* Seeking: the scrubber with known, unknown and stale durations.
NextSeek ==
    \/ Mount
    \/ \E t \in TypedAddresses : Edit(t)
    \/ Submit
    \/ \E i \in 1..Len(hls), levels \in OneManifest : ManifestParsed(i, levels, TRUE)
    \/ LoadedMetadata(TRUE)
    \/ \E d \in {"finite", "Infinity"} : DurationChange(d)
    \/ \E t \in 0..MaxTime : TimeUpdate(t)
    \/ \E val \in (0..MaxTime) \cup {DefaultSliderMax} : seek(val)

SpecSeek == Init /\ [][NextSeek]_vars

\* Fullscreen: toggles, the document's completions and notifications, Escape.
NextFullscreen ==
    \/ Mount
    \/ toggleFullscreen
    \/ \E granted \in BOOLEAN : CompleteFullscreen(granted)
    \/ ExternalExit
    \/ FullscreenChange

SpecFullscreen == Init /\ [][NextFullscreen]_vars

\* ------------------------------------------------------------------ claims
AllSpace(s) ==
    \A i \in 1..Len(s) : s[i] \in WhiteSpace

\* t is s without its leading and trailing whitespace, and is not empty.
IsTrimOf(t, s) ==
    /\ t # <<>>
    /\ Head(t) \notin WhiteSpace
    /\ t[Len(t)] \notin WhiteSpace
    /\ \E i \in 1..Len(s) : \E j \in i..Len(s) :
          /\ t = SubSeq(s, i, j)
          /\ AllSpace(SubSeq(s, 1, i - 1))
          /\ AllSpace(SubSeq(s, j + 1, Len(s)))

\* C1: a submit sets the active address to exactly the field text without its
\* leading and trailing whitespace when that is non-empty, and leaves the active
\* address unchanged when the field is empty or all whitespace; an edit of the
\* field never changes the active address.
C1_SubmitSetsTrimmedAddress ==
    [][/\ last'.op = "submit" =>
             IF AllSpace(urlInput) THEN streamUrl' = streamUrl
             ELSE IsTrimOf(streamUrl', urlInput)
       /\ last'.op = "edit" => streamUrl' = streamUrl]_vars

\* A padded, non-empty text was submitted and changed the active address.
C1_Witness ==
    /\ last.op = "submit"
    /\ last.n = 1
    /\ ~AllSpace(urlInput)
    /\ urlInput # streamUrl
    /\ Head(urlInput) \in WhiteSpace

\* C2: at most one Hls instance is constructed and not destroyed, and it is the
\* one hlsRef holds; every earlier instance is destroyed by the time a later one
\* exists; after the Player is removed none is left.
C2_AtMostOneLiveClient ==
    /\ Cardinality(Live(hls)) <= 1
    /\ Live(hls) \subseteq {hlsRef}
    /\ \A i \in 1..(Len(hls) - 1) : hls[i].destroyed
    /\ phase = "unmounted" => Live(hls) = {}

\* An address change has just replaced a destroyed instance by a new one.
C2_Witness ==
    /\ last.op = "submit"
    /\ Len(hls) >= 2
    /\ hls[Len(hls) - 1].destroyed
    /\ ~hls[Len(hls)].destroyed

\* C3: right after the MANIFEST_PARSED handler ran for N renditions, the quality
\* list has N entries, one per rendition of the manifest (its index, height and
\* bitrate), in non-increasing height order, and the selection is -1.
C3_ManifestParsedBuildsSortedList ==
    last.op = "manifestParsed" =>
        LET levels == hls[last.n].levels
        IN  /\ Len(qualities) = Len(levels)
            /\ \A k \in 1..Len(levels) : \E j \in 1..Len(qualities) :
                  /\ qualities[j].index = k - 1
                  /\ qualities[j].height = levels[k].height
                  /\ qualities[j].bitrate = levels[k].bitrate
            /\ \A j \in 1..(Len(qualities) - 1) :
                  qualities[j].height >= qualities[j + 1].height
            /\ currentQualityIndex = -1

\* A manifest whose second rendition is the taller one was parsed: the sort moved it.
C3_Witness ==
    /\ last.op = "manifestParsed"
    /\ Len(qualities) = 2
    /\ qualities[1].index = 1
    /\ qualities[1].height > qualities[2].height

\* C4: right after an address change, and as long as the client of the current
\* address (if any) has not had its manifest parsed, the quality list is empty and
\* the selection is -1, whatever was selected before.
C4_AddressChangeResetsQuality ==
    /\ last.op = "submit" /\ last.n = 1 =>
          qualities = <<>> /\ currentQualityIndex = -1
    /\ phase = "mounted" /\ ~(hlsRef # 0 /\ hls[hlsRef].parsed) =>
          qualities = <<>> /\ currentQualityIndex = -1

\* The address changed after a quality had been selected in an earlier session.
C4_Witness ==
    /\ last.op = "submit"
    /\ last.n = 1
    /\ \E i \in 1..Len(hls) : hls[i].destroyed /\ hls[i].currentLevel # -1

\* C5: the error message is hidden right after an address change, and a message
\* displayed during a session comes from that session's own strategy: the
\* "cannot play file" message only in a direct-file session, the "stream
\* connection error" message only in an adaptive-client session.
C5_ErrorBelongsToOwnStrategy ==
    /\ last.op = "submit" /\ last.n = 1 => error = NoError
    /\ error = FileError => Strategy(streamUrl) = "file"
    /\ error = StreamError => Strategy(streamUrl) = "hlsjs"

\* C6: the fatal error of another category destroys the client and displays a
\* message; while the session of a client so destroyed lasts, no manifest-parsed
\* or data-loaded handler calls play().
C6_FatalErrorStopsAutoplay ==
    [][/\ last'.op = "otherError" =>
             hls'[last'.n].destroyed /\ error' = StreamError /\ error' # NoError
       /\ (phase = "mounted" /\ hlsRef # 0 /\ hls[hlsRef].destroyed /\ session' = session) =>
             ~(last'.op \in {"manifestParsed", "loadedmetadata", "loadeddata"}
               /\ last'.plays > 0)]_vars

\* The fatal error hit a session that follows a direct-file session, whose
\* data-loaded listener is still on the element.
C6_Witness ==
    /\ last.op = "otherError"
    /\ error = StreamError
    /\ hls[hlsRef].destroyed
    /\ listeners.loadeddata > 0

\* C7: a fatal network error issues startLoad and a fatal media error issues
\* recoverMediaError on the client; after either the client is not destroyed and
\* no error message is displayed; a non-fatal error changes nothing.
C7_RecoverableErrorsAreNotSurfaced ==
    [][/\ last'.op = "networkError" =>
             /\ hls'[last'.n].cmd = "startLoad"
             /\ ~hls'[last'.n].destroyed
             /\ error' = NoError
       /\ last'.op = "mediaError" =>
             /\ hls'[last'.n].cmd = "recoverMediaError"
             /\ ~hls'[last'.n].destroyed
             /\ error' = NoError
       /\ last'.op = "nonFatal" => UNCHANGED <<uiVars, resVars>>]_vars

\* C8: whenever a rejected autoplay promise's handler has run, on any strategy,
\* the displayed playing flag is false and the muted flag true, and the step has
\* not turned the error message on (unless it is the fatal error's own step).
C8_RejectedAutoplayIsPausedAndMuted ==
    [][last'.rej # {} =>
          /\ ~isPlaying'
          /\ isMuted'
          /\ error' = error \/ error' = NoError \/ last'.op = "otherError"]_vars

\* C9: a toggle requests play exactly when the element is paused (and pauses it
\* otherwise), and the second of two consecutive toggles leaves the element as it
\* was before the first, whatever events were delivered in between.
C9_TogglePlayFollowsElement ==
    [][last'.op = "togglePlay" =>
          /\ (last'.n = 1) = video.paused
          /\ last.op = "togglePlay" => video'.paused = last.was]_vars

\* C10: after a volume change to val, muted is true exactly when val is 0, also
\* when the Player was muted before, and the element holds the same volume and
\* muted values as the displayed state.
C10_VolumeChangeSetsMuted ==
    last.op = "handleVolumeChange" =>
        /\ isMuted = (last.n = 0)
        /\ volume = last.n
        /\ video.muted = isMuted
        /\ video.volume = volume

\* A muted Player had its volume changed to a value above 0.
C10_Witness ==
    /\ last.op = "handleVolumeChange"
    /\ last.was
    /\ last.n > 0
    /\ ~isMuted

\* What an address change (or the first run) did, read off the step: a client was
\* constructed, loaded and attached; the address was assigned as the element's
\* source with a metadata listener; or assigned with a load and the data and
\* error listeners.
AdaptiveApplied ==
    /\ Len(hls') = Len(hls) + 1
    /\ hlsRef' = Len(hls')
    /\ hls'[hlsRef'] = NewHls
    /\ video'.attached = hlsRef'
    /\ video'.media = "loading"

NativeApplied ==
    /\ listeners'.loadedmetadata = listeners.loadedmetadata + 1
    /\ video'.attached = 0
    /\ video'.media = "loading"

FileApplied ==
    /\ listeners'.loadeddata = listeners.loadeddata + 1
    /\ listeners'.error = listeners.error + 1
    /\ video'.attached = 0
    /\ video'.media = "loading"

AppliedCount ==
    (IF Len(hls') # Len(hls) THEN 1 ELSE 0)
    + (IF listeners'.loadedmetadata # listeners.loadedmetadata THEN 1 ELSE 0)
    + (IF listeners'.loadeddata # listeners.loadeddata
          \/ listeners'.error # listeners.error THEN 1 ELSE 0)

\* C11: on every run of the setup effect exactly one strategy is applied, chosen
\* by first match: a manifest-looking address with hls.js support gets a client
\* constructed, loaded and attached; else a manifest-looking address the platform
\* plays natively is assigned as the element source; else the address is assigned
\* and loaded as a file. A client is constructed exactly in the first case.
C11_StrategyByFirstMatch ==
    [][last'.op \in {"mount", "submit"} /\ last'.n = 1 =>
          LET manifest == isHlsSource(streamUrl')
          IN  /\ AppliedCount = 1
              /\ (manifest /\ hlsSupported) => AdaptiveApplied
              /\ (manifest /\ ~hlsSupported /\ nativeHls) => NativeApplied
              /\ (~manifest \/ (~hlsSupported /\ ~nativeHls)) => FileApplied
              /\ (Len(hls') = Len(hls) + 1) = (manifest /\ hlsSupported)
              /\ (hlsRef' # 0) = (manifest /\ hlsSupported)]_vars

\* A manifest address was submitted where both hls.js and native playback are
\* available: the client was constructed, no native listener was added.
C11_Witness ==
    /\ last.op = "submit"
    /\ last.n = 1
    /\ hlsSupported
    /\ nativeHls
    /\ isHlsSource(streamUrl)
    /\ hlsRef = Len(hls)
    /\ listeners.loadedmetadata = 0

\* The adaptive client of the current session, when it exists and is not destroyed.
ActiveClient ==
    hlsRef # 0 /\ ~hls[hlsRef].destroyed

\* C12: a quality change sets the chosen index (or -1) on the active client and
\* on no other instance; without an active client it leaves the selection and
\* every instance as they were, and the settings control is not rendered (the
\* quality list is empty).
C12_ChangeQualityOnlyOnActiveClient ==
    [][/\ last'.op = "changeQuality" =>
             IF ActiveClient
             THEN /\ currentQualityIndex' = last'.n
                  /\ hls'[hlsRef].currentLevel = last'.n
                  /\ \A i \in 1..Len(hls) : i # hlsRef => hls'[i] = hls[i]
             ELSE /\ currentQualityIndex' = currentQualityIndex
                  /\ hls' = hls
       /\ (phase = "mounted" /\ ~ActiveClient) => qualities = <<>>]_vars

\* Nothing of the document's fullscreen processing is in flight.
FullscreenQuiescent ==
    fs.requests = <<>> /\ fs.events = 0

\* C13: whenever every fullscreen request has completed and every fullscreenchange
\* notification has been delivered, the displayed fullscreen flag equals whether
\* the document has a fullscreen element; and a request's own completion handler
\* always leaves the flag equal to the document's state.
C13_FullscreenFlagReconciled ==
    [][/\ FullscreenQuiescent' => isFullscreen' = fs'.element
       /\ (last'.op = "fullscreenDone" /\ last'.n = 1) => isFullscreen' = fs'.element]_vars

\* Fullscreen was left from outside (the flag was still true when the
\* notification arrived) and the notification cleared the flag.
C13_Witness ==
    /\ last.op = "fullscreenChange"
    /\ last.was
    /\ ~isFullscreen
    /\ ~fs.element
    /\ FullscreenQuiescent

\* C14: a time-update that finds the element's duration unbounded marks the
\* stream live; while the stream is marked live the progress scrubber is not
\* rendered and the live indicator is; a live mark is cleared only by an address
\* change.
C14_UnboundedDurationMarksLive ==
    [][/\ (last'.op = "timeUpdate" /\ video.duration = "Infinity") => isLive'
       /\ isLive' => ~ScrubberShown' /\ LiveIndicatorShown'
       /\ (isLive /\ ~isLive') => (last'.op = "submit" /\ last'.n = 1)]_vars

\* A time-update with a finite duration arrived in a session already marked
\* live by an unbounded one, not by the client: the mark stayed.
C14_Witness ==
    /\ last.op = "timeUpdate"
    /\ duration = "finite"
    /\ isLive
    /\ hlsRef = 0

\* C15: every entry of the quality list carries the tier of its own height and of
\* nothing else: 4K from 2160 up, 2K from 1440 to 2159, FHD from 1080 to 1439,
\* HD from 720 to 1079, SD below 720.
C15_LabelIsTierOfHeight ==
    \A k \in 1..Len(qualities) :
        LET h == qualities[k].height
            l == qualities[k].label
        IN  /\ h >= 2160 => l = "4K"
            /\ (h >= 1440 /\ h < 2160) => l = "2K"
            /\ (h >= 1080 /\ h < 1440) => l = "FHD"
            /\ (h >= 720 /\ h < 1080) => l = "HD"
            /\ h < 720 => l = "SD"

\* A manifest with a rendition exactly on a threshold and one just below it.
C15_Witness ==
    /\ last.op = "manifestParsed"
    /\ Len(qualities) = 2
    /\ qualities[1].height = 1440
    /\ qualities[1].label = "2K"
    /\ qualities[2].height = 1439
    /\ qualities[2].label = "FHD"

\* C16: the displayed muted flag equals the element's muted attribute and the
\* displayed volume equals the element's volume.
C16_MutedMirrorsElement ==
    /\ isMuted = video.muted
    /\ volume = video.volume

\* C17: whenever the quality list is non-empty, it is the list built from the
\* manifest of the instance hlsRef holds, that instance is the one constructed
\* for the current address, and it has not been destroyed.
C17_QualitiesBelongToLiveClient ==
    qualities # <<>> =>
        /\ hlsRef # 0
        /\ hlsRef = Len(hls)
        /\ hls[hlsRef].parsed
        /\ ~hls[hlsRef].destroyed
        /\ qualities = ParseLevels(hls[hlsRef].levels)

\* The strategy whose setup adds a listener for the element event `name`.
ListenerOwner(name) ==
    IF name = "loadedmetadata" THEN "native" ELSE "file"

\* C18: a metadata-loaded or data-loaded event makes exactly one autoplay attempt
\* in a session whose own setup listens for it and none in any other session,
\* and an error event of the element changes the displayed error only in a
\* direct-file session: listeners added by earlier sessions do nothing.
C18_NoStaleCallbacks ==
    [][/\ last'.op \in {"loadedmetadata", "loadeddata"} =>
             /\ last'.plays = IF Strategy(streamUrl) = ListenerOwner(last'.op) THEN 1 ELSE 0
             /\ Strategy(streamUrl) # ListenerOwner(last'.op) => UNCHANGED uiVars
       /\ (last'.op = "videoError" /\ Strategy(streamUrl) # "file") => UNCHANGED uiVars]_vars

\* C19: right after an address change the displayed playing flag is false, the
\* displayed current time and duration are 0, live is false, no error is
\* displayed and buffering is true.
C19_SessionStateRebuilt ==
    (last.op = "submit" /\ last.n = 1) =>
        /\ ~isPlaying
        /\ currentTime = 0
        /\ duration = "0"
        /\ ~isLive
        /\ error = NoError
        /\ isBuffering

\* C20: while the client of the displayed list is alive, every entry's index is
\* the 0-based position, in the client's manifest, of the rendition with the
\* entry's height and bitrate; the indices of the list are exactly 0..N-1, each
\* once; and selecting an entry sets the client's currentLevel to its index.
C20_SortKeepsStableIndex ==
    [][/\ (qualities' # <<>> /\ hlsRef' # 0 /\ ~hls'[hlsRef'].destroyed) =>
             LET levels == hls'[hlsRef'].levels
             IN  /\ \A k \in 1..Len(qualities') :
                       /\ qualities'[k].index \in 0..(Len(levels) - 1)
                       /\ levels[qualities'[k].index + 1].height = qualities'[k].height
                       /\ levels[qualities'[k].index + 1].bitrate = qualities'[k].bitrate
                 /\ {qualities'[k].index : k \in 1..Len(qualities')} = 0..(Len(levels) - 1)
                 /\ Len(qualities') = Len(levels)
       /\ (last'.op = "changeQuality" /\ last'.n >= 0 /\ ActiveClient) =>
             /\ \E k \in 1..Len(qualities) : qualities[k].index = last'.n
             /\ hls'[hlsRef].currentLevel = last'.n
             /\ currentQualityIndex' = last'.n]_vars

\* The first entry of a list the sort has reordered was selected: the client
\* switched to that entry's manifest position, not to its place in the list.
C20_Witness ==
    /\ last.op = "changeQuality"
    /\ ActiveClient
    /\ Len(qualities) >= 2
    /\ qualities[1].index = 1
    /\ last.n = 1
    /\ hls[hlsRef].currentLevel = 1
    /\ hls[hlsRef].levels[2].height = qualities[1].height

\* C21: while the current address is played natively or as a direct file, the
\* quality list is empty, also right after an adaptive-client session whose
\* manifest had been parsed.
C21_NoQualitiesWithoutClient ==
    (phase = "mounted" /\ Strategy(streamUrl) \in {"native", "file"}) => qualities = <<>>

\* A direct-file address was submitted after a session whose client had parsed
\* its manifest: that client is destroyed and the list is empty.
C21_Witness ==
    /\ last.op = "submit"
    /\ last.n = 1
    /\ Strategy(streamUrl) = "file"
    /\ hlsRef = 0
    /\ Len(hls) >= 1
    /\ hls[Len(hls)].parsed
    /\ hls[Len(hls)].destroyed
    /\ qualities = <<>>

\* The end of the range a seek may address on the current media: its length when
\* bounded, 0 while the element has reported no duration.
SeekableEnd ==
    IF video.duration = "finite" THEN FiniteDuration
    ELSE IF video.duration = "NaN" THEN 0
    ELSE DefaultSliderMax

\* C22: right after a seek, the requested time lies within [0, duration] of the
\* current media (0 while no duration is known), the element's time is that
\* value, and the displayed current time equals it.
C22_SeekWithinDuration ==
    last.op = "seek" =>
        /\ last.n \in 0..SeekableEnd
        /\ video.currentTime = last.n
        /\ currentTime = last.n

\* C23: the quality selection is -1 or the index of an entry of the quality list.
C23_SelectionIsListed ==
    \/ currentQualityIndex = -1
    \/ \E k \in 1..Len(qualities) : qualities[k].index = currentQualityIndex

\* A fatal error destroyed the client after a quality had been selected: the
\* selection still names an entry of the list, which the handler left in place.
C23_Witness ==
    /\ last.op = "otherError"
    /\ currentQualityIndex >= 0
    /\ hls[hlsRef].destroyed
    /\ \E k \in 1..Len(qualities) : qualities[k].index = currentQualityIndex

\* C24: a submit that leaves the active address as it was changes nothing of the
\* Player: no instance is constructed or destroyed, hlsRef and the element are
\* untouched and no displayed state is reset, so an error message stays and a
\* destroyed client stays destroyed.
C24_SameAddressStartsNoSession ==
    [][(last'.op = "submit" /\ streamUrl' = streamUrl) =>
          /\ hls' = hls
          /\ hlsRef' = hlsRef
          /\ session' = session
          /\ error' = error
          /\ UNCHANGED <<uiVars, resVars, auxVars>>]_vars

\* The active address was submitted again after its client had been destroyed
\* by a fatal error: the message is still displayed, the client still destroyed.
C24_Witness ==
    /\ last.op = "submit"
    /\ last.n = 0
    /\ error = StreamError
    /\ hlsRef # 0
    /\ hls[hlsRef].destroyed

====
